---- MODULE Spec2Model ----
(***************************************************************************)
(* Model of the news / stock data pipeline of Veri-madenciligi:            *)
(*   - retry_with_backoff          (HaberVerileriniAlma.py, Haberveri.py)  *)
(*   - get_news_data and its fallback get_alternative_news_data            *)
(*     (HaberVerileriniAlma.py, Haberveri.py, data_acquisition.py)         *)
(*   - merge_stock_and_news_data   (HaberVerileriniAlma.py)                *)
(*   - transform_data, integrate_data (data_preprocessing.py)              *)
(*   - the main block and format_stock_symbol (HaberVerileriniAlma.py)     *)
(* Dates are day numbers, sentiment scores are integers (scaled), a mean   *)
(* is the exact fraction sum/count.                                        *)
(***************************************************************************)
EXTENDS Integers, Sequences, FiniteSets, TLC

\* ------------------------------------------------------------------------
\* Bounds of the model
\* ------------------------------------------------------------------------
MaxRetriesBound == 3
MaxDelayParam == 2
MaxStart == 1
MaxEnd == 61
MaxCalls == 2
MaxSynth == 2
MaxArt == 2
MaxDate == 2
MaxStock == 2
MaxNews == 2
MaxDrawn == 1
MaxAhead == 2
MaxBars == 3
MaxRows == 2
MaxPad == 1

\* ------------------------------------------------------------------------
\* Module names and the binding of the name `time` in each module
\* ------------------------------------------------------------------------
HVA == "HaberVerileriniAlma"
HV == "Haberveri"
DA == "data_acquisition"

\* `import time` followed by `from datetime import ..., time`: the name
\* `time` is datetime.time, which has no attribute `sleep`.
HVA_time_has_sleep == FALSE
HV_time_has_sleep == FALSE
\* `import time` and `from datetime import datetime, timedelta`: the module.
DA_time_has_sleep == TRUE

TimeHasSleep(m) ==
    CASE m = HVA -> HVA_time_has_sleep
      [] m = HV -> HV_time_has_sleep
      [] OTHER -> DA_time_has_sleep

VARIABLES
    \* retry_with_backoff wrapper
    r_mod,          \* module whose decorator is used
    max_retries,    \* decorator argument
    initial_delay,  \* decorator argument
    exponential_base, \* decorator argument
    jitter,         \* decorator argument
    r_pc,           \* "call" | "except" | "done"
    num_retries,    \* local of wrapper
    delay,          \* local of wrapper, a fraction [n, d]
    last_exc,       \* exception raised by the last call of func
    calls,          \* number of calls of func so far
    failures,       \* number of calls of func that raised a retryable error
    waits,          \* delays actually slept, in order
    r_out           \* "none" | "returned" | "raised_original" |
                    \* "raised_other" | "raised_AttributeError"

retry_vars == << r_mod, max_retries, initial_delay, exponential_base, jitter,
                 r_pc, num_retries, delay, last_exc, calls, failures, waits,
                 r_out >>

VARIABLES
    today,          \* datetime.now().date(), a day number
    files,          \* the file veri/haber/<company>_haberler_<start>_<end>.csv
                    \* of the call's arguments; HaberVerileriniAlma and
                    \* Haberveri lie in one directory and share it
    n_calls,        \* calls of get_news_data made so far
    n_pc,           \* "idle" | "loop" | "done"
    n_mod,          \* module whose get_news_data runs
    n_key,          \* os.getenv("NEWS_API_KEY") is set
    n_analyze,      \* argument analyze_sentiment
    n_start,        \* argument start_date
    n_req_end,      \* argument end_date
    n_end,          \* end_date after the future-date check
    current_start,  \* local of the window loop
    all_articles,   \* local of the window loop
    queried,        \* the get_everything calls made: [from, to, status]
    n_error,        \* an exception reached the outer except clause
    n_result        \* the frame returned

news_vars == << today, files, n_calls, n_pc, n_mod, n_key, n_analyze, n_start,
                n_req_end, n_end, current_start, all_articles, queried,
                n_error, n_result >>

VARIABLES
    m_pc,           \* "input" | "done"
    stock_data,     \* argument
    news_data,      \* argument
    stock_symbol,   \* argument
    m_hours,        \* the hours random.choice gave (news without publishedAt)
    m_windows,      \* the time_of_day column of news_with_time
    m_result,       \* [raised, error, frame]: how the call ended
    m_stock_after   \* the stock_data object after the call

merge_vars == << m_pc, stock_data, news_data, stock_symbol, m_hours,
                 m_windows, m_result, m_stock_after >>

VARIABLES
    t_pc,           \* "input" | "done"
    t_df,           \* argument df of transform_data: a sequence of bars
    t_result        \* [raised, rows]: how the call ended

transform_vars == << t_pc, t_df, t_result >>

VARIABLES
    s_pc,           \* position in the main block
    s_valid,        \* << stock_valid, index_valid >> of check_symbol_exists
    s_formatted,    \* the symbols were reformatted and checked again
    s_consulted,    \* the stock sources called, in order: [src, rows]
    s_stock,        \* stock_data: [src, rows], rows = 0 for an empty frame
    s_news,         \* rows of news_data, -1 before get_news_data is called
    s_merged        \* rows of merged_data, -1 before the merge is called

main_vars == << s_pc, s_valid, s_formatted, s_consulted, s_stock, s_news,
                s_merged >>

VARIABLES
    f_pc,           \* "input" | "once" | "twice"
    f_symbol,       \* argument symbol, a sequence of characters
    f_exchange,     \* argument exchange, a sequence of characters
    f_once,         \* format_stock_symbol(symbol, exchange)
    f_twice         \* format_stock_symbol(f_once, exchange)

format_vars == << f_pc, f_symbol, f_exchange, f_once, f_twice >>

VARIABLES
    i_pc,           \* "input" | "done"
    i_stock,        \* argument stock_df: a sequence of rows
    i_news,         \* argument news_df: a sequence of rows
    i_result,       \* the frame returned: a sequence of rows
    i_stock_after   \* the caller's stock_df after the call

integrate_vars == << i_pc, i_stock, i_news, i_result, i_stock_after >>

other_vars == << transform_vars, main_vars, format_vars, integrate_vars >>

\* the retry wrapper is not running
RetryOff ==
    /\ r_mod = HVA /\ max_retries = 0 /\ initial_delay = 1
    /\ exponential_base = 2 /\ jitter = FALSE /\ r_pc = "off"
    /\ num_retries = 0 /\ delay = [n |-> 1, d |-> 1] /\ last_exc = "none"
    /\ calls = 0 /\ failures = 0 /\ waits = << >> /\ r_out = "none"

\* get_news_data is not running
NewsOff ==
    /\ today = 0 /\ files = [exists |-> FALSE, scored |-> FALSE, n |-> 0]
    /\ n_calls = 0 /\ n_pc = "off" /\ n_mod = HVA /\ n_key = FALSE
    /\ n_analyze = FALSE /\ n_start = 0 /\ n_req_end = 0 /\ n_end = 0
    /\ current_start = 0 /\ all_articles = << >> /\ queried = << >>
    /\ n_error = FALSE
    /\ n_result = [src |-> "none", rows |-> << >>, scored |-> FALSE]

\* merge_stock_and_news_data is not running
MergeOff ==
    /\ m_pc = "off" /\ stock_data = [cols |-> {}, rows |-> << >>] /\ news_data = [cols |-> {}, rows |-> << >>]
    /\ stock_symbol = "A" /\ m_hours = << >> /\ m_windows = << >>
    /\ m_result = [raised |-> FALSE, error |-> FALSE, frame |-> [cols |-> {}, rows |-> << >>]]
    /\ m_stock_after = [cols |-> {}, rows |-> << >>]

\* transform_data is not running
TransformOff ==
    /\ t_pc = "off" /\ t_df = << >>
    /\ t_result = [raised |-> FALSE, rows |-> << >>]

\* the main block is not running
MainOff ==
    /\ s_pc = "off" /\ s_valid = << TRUE, TRUE >> /\ s_formatted = FALSE
    /\ s_consulted = << >> /\ s_stock = [src |-> "none", rows |-> 0]
    /\ s_news = -1 /\ s_merged = -1

\* format_stock_symbol is not running
FormatOff ==
    /\ f_pc = "off" /\ f_symbol = << >> /\ f_exchange = << >>
    /\ f_once = << >> /\ f_twice = << >>

\* integrate_data is not running
IntegrateOff ==
    /\ i_pc = "off" /\ i_stock = << >> /\ i_news = << >>
    /\ i_result = << >> /\ i_stock_after = << >>

OthersOff == TransformOff /\ MainOff /\ FormatOff /\ IntegrateOff

vars == << retry_vars, news_vars, merge_vars, other_vars >>

\* ------------------------------------------------------------------------
\* retry_with_backoff
\* ------------------------------------------------------------------------
\* Outcomes of one call of the wrapped function.  "retryable" is any of
\* RequestException, ConnectionError, ValueError, IOError; "retryable429" is
\* a RequestException whose response has status 429; "other" is any
\* exception the except clause does not name.
FuncOutcomes == {"ok", "retryable", "retryable429", "other"}

\* random.random() is in [0, 1): the factor 0.5 + random.random(), in halves.
JitterHalves == {1, 2}

RetryInit ==
    /\ NewsOff /\ MergeOff /\ OthersOff
    /\ r_mod \in {HVA, HV}
    /\ max_retries \in 0..MaxRetriesBound
    /\ initial_delay \in 1..MaxDelayParam
    /\ exponential_base \in 2..3
    /\ jitter \in BOOLEAN
    /\ r_pc = "call"
    /\ num_retries = 0
    /\ delay = [n |-> initial_delay, d |-> 1]
    /\ last_exc = "none"
    /\ calls = 0
    /\ failures = 0
    /\ waits = << >>
    /\ r_out = "none"

\* try: return func(*args, **kwargs)
RetryCall ==
    /\ r_pc = "call"
    /\ \E o \in FuncOutcomes :
        /\ calls' = calls + 1
        /\ last_exc' = o
        /\ failures' = IF o \in {"retryable", "retryable429"}
                       THEN failures + 1 ELSE failures
        /\ r_pc' = IF o \in {"retryable", "retryable429"} THEN "except" ELSE "done"
        /\ r_out' = CASE o = "ok" -> "returned"
                      [] o = "other" -> "raised_other"
                      [] OTHER -> r_out
    /\ UNCHANGED << r_mod, max_retries, initial_delay, exponential_base,
                    jitter, num_retries, delay, waits >>
    /\ UNCHANGED << news_vars, merge_vars, other_vars >>

\* The delay computed by the except clause before sleeping.
NextDelay(dl, base, tooMany, jit, f) ==
    LET n1 == dl.n * base * (IF tooMany THEN 2 ELSE 1)
    IN  IF jit THEN [n |-> n1 * f, d |-> dl.d * 2] ELSE [n |-> n1, d |-> dl.d]

\* except (RequestException, ConnectionError, ValueError, IOError) as e: ...
RetryExcept ==
    /\ r_pc = "except"
    /\ num_retries' = num_retries + 1
    /\ IF num_retries + 1 > max_retries
       THEN \* raise
            /\ r_pc' = "done"
            /\ r_out' = "raised_original"
            /\ UNCHANGED << delay, waits >>
       ELSE \E f \in JitterHalves :
            /\ delay' = NextDelay(delay, exponential_base,
                                  last_exc = "retryable429", jitter, f)
            /\ IF TimeHasSleep(r_mod)
               THEN \* time.sleep(delay) returns, the while loop goes on
                    /\ waits' = Append(waits, delay')
                    /\ r_pc' = "call"
                    /\ r_out' = r_out
               ELSE \* time.sleep raises AttributeError inside the except
                    \* clause: it leaves the wrapper
                    /\ waits' = waits
                    /\ r_pc' = "done"
                    /\ r_out' = "raised_AttributeError"
    /\ UNCHANGED << r_mod, max_retries, initial_delay, exponential_base,
                    jitter, last_exc, calls, failures >>
    /\ UNCHANGED << news_vars, merge_vars, other_vars >>

RetryNext == RetryCall \/ RetryExcept

SpecRetry == RetryInit /\ [][RetryNext]_vars

\* C1: a function that fails on every call with a retryable error is called
\* max_retries + 1 times and only then is the error re-raised; a successful
\* call returns at once.
C1_RetriesThenReraises ==
    /\ (r_pc = "done" /\ failures = calls /\ calls > 0)
          => (calls = max_retries + 1 /\ r_out = "raised_original")
    /\ (r_out = "returned") => (r_pc = "done" /\ last_exc = "ok")

\* the except clause of a retry within max_retries has run
Retried == r_pc # "except" /\ num_retries >= 1 /\ num_retries <= max_retries

\* C15: with jitter off and no 429 response every retry waits, the delay
\* of the first retry is initial_delay seconds, and each later wait is
\* exponential_base times the one before.
C15_ScheduleStartsAtInitialDelay ==
    (Retried /\ ~jitter /\ last_exc = "retryable") =>
        /\ Len(waits) = num_retries
        /\ (num_retries = 1) => delay = [n |-> initial_delay, d |-> 1]
        /\ \A i \in 2..Len(waits) :
              /\ waits[i].d = waits[i - 1].d
              /\ waits[i].n = exponential_base * waits[i - 1].n

\* ------------------------------------------------------------------------
\* get_news_data / get_alternative_news_data / generate_sample_news_data
\* ------------------------------------------------------------------------
\* timedelta(days=30): the longest span of one query window
WindowDays == 30

URLs == {"u1", "u2"}

NoFile == [exists |-> FALSE, scored |-> FALSE, n |-> 0]
NoFrame == [src |-> "none", rows |-> << >>, scored |-> FALSE]
EmptyFrame == [src |-> "empty", rows |-> << >>, scored |-> FALSE]

Min(a, b) == IF a <= b THEN a ELSE b

\* rows of a generated frame: n articles
SynRows(n) == [i \in 1..n |-> [url |-> "syn", id |-> i]]

\* news_df.drop_duplicates(subset=["url"], keep="first")
DropDuplicates(s) ==
    LET F[i \in 0..Len(s)] ==
            IF i = 0 THEN << >>
            ELSE IF \E j \in 1..(i - 1) : s[j].url = s[i].url
                 THEN F[i - 1]
                 ELSE Append(F[i - 1], s[i])
    IN  F[Len(s)]

\* The five sentiment columns are present in a generated frame:
\* HaberVerileriniAlma adds them through add_sentiment_scores or, with
\* analyze_sentiment off, from the templates; Haberveri never adds them.
SyntheticScored(m) == m = HVA

\* get_alternative_news_data: the saved file if it exists and can be read,
\* else generated articles that are then saved; a failure while generating
\* or saving gives an empty frame.  The set of possible
\* [frame, files] outcomes.
AltOutcomes(m, f) ==
    LET fromFile == { [frame |-> [src |-> "file", rows |-> SynRows(f.n),
                                  scored |-> f.scored],
                       files |-> f] }
        generated == { [frame |-> [src |-> "synthetic", rows |-> SynRows(k),
                                   scored |-> SyntheticScored(m)],
                        files |-> [exists |-> TRUE,
                                   scored |-> SyntheticScored(m),
                                   n |-> k]] : k \in 1..MaxSynth }
        failed == { [frame |-> EmptyFrame, files |-> f] }
    IN  IF f.exists THEN fromFile \cup generated \cup failed
        ELSE generated \cup failed

\* generate_sample_news_data of data_acquisition: 0..3 articles per business
\* day, no file
SampleOutcomes(f) ==
    { [frame |-> [src |-> "sample", rows |-> SynRows(k), scored |-> FALSE],
       files |-> f] : k \in 0..MaxSynth }

Fallback(m, f) == IF m = DA THEN SampleOutcomes(f) ELSE AltOutcomes(m, f)

\* the frame built from all_articles after the loop
ApiFrame(m, arts, analyze) ==
    IF m = DA
    THEN [src |-> "api", rows |-> arts, scored |-> FALSE]
    ELSE [src |-> "api", rows |-> DropDuplicates(arts),
          scored |-> (m = HVA /\ analyze)]

\* the end date left as requested
ClampEnd_NoClamp(m, e, now) == e

\* end_date after `if end_dt > current_date: end_date = current_date`
ClampEnd(m, e, now) == IF m # DA /\ e > now THEN now ELSE e

\* the responses get_everything can give for one window
Responses ==
    { [status |-> "error", arts |-> << >>], [status |-> "raise", arts |-> << >>] }
    \cup { [status |-> "ok", arts |-> a] :
             a \in UNION { [1..k -> URLs] : k \in 0..MaxArt } }

NewsInit ==
    /\ RetryOff /\ MergeOff /\ OthersOff
    /\ today \in {MaxEnd - 1, MaxEnd + 1}
    /\ n_start \in 0..MaxStart
    /\ n_req_end \in 0..MaxEnd
    /\ files = NoFile
    /\ n_calls = 0
    /\ n_pc = "idle"
    /\ n_mod = HVA
    /\ n_key = FALSE
    /\ n_analyze = TRUE
    /\ n_end = n_req_end
    /\ current_start = n_start
    /\ all_articles = << >>
    /\ queried = << >>
    /\ n_error = FALSE
    /\ n_result = NoFrame

\* get_news_data up to the window loop
NewsCall ==
    /\ n_pc \in {"idle", "done"}
    /\ n_calls < MaxCalls
    /\ n_calls' = n_calls + 1
    /\ \E m \in {HVA, HV, DA}, k \in BOOLEAN, an \in BOOLEAN :
        /\ (m # HVA) => an = FALSE
        /\ n_mod' = m
        /\ n_key' = k
        /\ n_analyze' = an
        /\ n_end' = ClampEnd(m, n_req_end, today)
        /\ current_start' = n_start
        /\ all_articles' = << >>
        /\ queried' = << >>
        /\ n_error' = FALSE
        /\ IF k
           THEN /\ n_pc' = "loop"
                /\ n_result' = NoFrame
                /\ files' = files
           ELSE /\ n_pc' = "done"
                /\ \E o \in Fallback(m, files) :
                      /\ n_result' = o.frame
                      /\ files' = o.files
    /\ UNCHANGED << today, n_start, n_req_end >>
    /\ UNCHANGED << retry_vars, merge_vars, other_vars >>

\* one iteration of `while current_start < end_dt`
NewsWindow ==
    /\ n_pc = "loop"
    /\ current_start < n_end
    /\ \E r \in Responses :
        LET current_end == Min(current_start + WindowDays, n_end)
            q == [from |-> current_start, to |-> current_end,
                  status |-> r.status]
            \* data_acquisition has no try around the request
            aborted == (r.status = "raise" /\ n_mod = DA)
            \* time.sleep(...) after the request
            sleepRaises == ~TimeHasSleep(n_mod)
        IN  /\ queried' = Append(queried, q)
            /\ all_articles' =
                  IF r.status = "ok"
                  THEN all_articles \o
                       [i \in 1..Len(r.arts) |->
                           [url |-> r.arts[i], id |-> Len(all_articles) + i]]
                  ELSE all_articles
            /\ current_start' = IF aborted THEN current_start ELSE current_end
            /\ IF aborted \/ sleepRaises
               THEN \* outer except clause
                    /\ n_error' = TRUE
                    /\ n_pc' = "done"
                    /\ \E o \in Fallback(n_mod, files) :
                          /\ n_result' = o.frame
                          /\ files' = o.files
               ELSE /\ n_error' = n_error
                    /\ n_pc' = "loop"
                    /\ n_result' = n_result
                    /\ files' = files
    /\ UNCHANGED << today, n_calls, n_mod, n_key, n_analyze, n_start,
                    n_req_end, n_end >>
    /\ UNCHANGED << retry_vars, merge_vars, other_vars >>

\* after the loop: `if all_articles: ... else: <fallback>`
NewsFinish ==
    /\ n_pc = "loop"
    /\ ~(current_start < n_end)
    /\ n_pc' = "done"
    /\ IF all_articles # << >>
       THEN /\ n_result' = ApiFrame(n_mod, all_articles, n_analyze)
            /\ files' = files
       ELSE \E o \in Fallback(n_mod, files) :
               /\ n_result' = o.frame
               /\ files' = o.files
    /\ UNCHANGED << today, n_calls, n_mod, n_key, n_analyze, n_start,
                    n_req_end, n_end, current_start, all_articles, queried,
                    n_error >>
    /\ UNCHANGED << retry_vars, merge_vars, other_vars >>

NewsNext == NewsCall \/ NewsWindow \/ NewsFinish

SpecNews == NewsInit /\ [][NewsNext]_vars

\* calls on a day close to the requested range: the requested end lies up to
\* MaxAhead days after today, or the whole range lies in the future
ClampInit ==
    /\ RetryOff /\ MergeOff /\ OthersOff
    /\ today \in 0..(MaxStart + 1)
    /\ n_start \in 0..MaxStart
    /\ n_req_end \in 0..(MaxStart + 1 + MaxAhead)
    /\ files = NoFile
    /\ n_calls = 0
    /\ n_pc = "idle"
    /\ n_mod = HVA
    /\ n_key = FALSE
    /\ n_analyze = TRUE
    /\ n_end = n_req_end
    /\ current_start = n_start
    /\ all_articles = << >>
    /\ queried = << >>
    /\ n_error = FALSE
    /\ n_result = NoFrame

SpecClamp == ClampInit /\ [][NewsNext]_vars

FallbackSources == {"file", "synthetic", "sample", "empty"}

\* C2: get_news_data of HaberVerileriniAlma returns the fetched articles
\* whenever at least one query window returned an article, and the result of
\* get_alternative_news_data exactly when the key is missing, no article was
\* collected or an error occurred.
C2_ApiWhenArticles ==
    (n_pc = "done" /\ n_mod = HVA) =>
        /\ n_result.src \in FallbackSources \cup {"api"}
        /\ (all_articles # << >>) =>
              (n_result.src = "api" /\ n_result.rows = DropDuplicates(all_articles))
        /\ (n_result.src \in FallbackSources) <=>
              (~n_key \/ all_articles = << >> \/ n_error)

\* s has no two articles of one url
UniqueUrls(s) == \A i, j \in 1..Len(s) : s[i].url = s[j].url => i = j

\* r is s restricted to the first article of every url, in the order of s
IsFirstOccurrences(r, s) ==
    /\ UniqueUrls(r)
    /\ \A i \in 1..Len(r) :
          \E j \in 1..Len(s) :
             /\ s[j] = r[i]
             /\ \A k \in 1..(j - 1) : s[k].url # s[j].url
    /\ \A j \in 1..Len(s) : \E i \in 1..Len(r) : r[i].url = s[j].url
    /\ \A i, k \in 1..Len(r) : i < k => r[i].id < r[k].id

\* C7: the frame get_news_data (HaberVerileriniAlma, Haberveri) returns from
\* the articles it fetched has no two articles of one url, keeps the first
\* fetched of every url and keeps fetch order, also when consecutive windows
\* returned the same article.
C7_ApiFrameDeduplicated ==
    (n_pc = "done" /\ n_mod \in {HVA, HV} /\ all_articles # << >>) =>
        (n_result.src = "api" /\ IsFirstOccurrences(n_result.rows, all_articles))

\* C9: a frame returned by get_news_data(..., analyze_sentiment=True) of
\* HaberVerileriniAlma is empty or carries the five sentiment columns,
\* whatever calls of either module preceded it.
C9_SentimentColumnsPresent ==
    (n_pc = "done" /\ n_mod = HVA /\ n_analyze) =>
        (n_result.rows = << >> \/ n_result.scored)

\* C10: for start_date <= end_date the queried windows are consecutive from
\* start_date, span at most 30 days each and end at end_date, so every day
\* of the range lies in a queried window.
C10_WindowsCoverRange ==
    (n_pc = "done" /\ n_key /\ n_start <= n_end) =>
        /\ \A i \in 1..Len(queried) :
              /\ queried[i].from = (IF i = 1 THEN n_start ELSE queried[i - 1].to)
              /\ queried[i].to - queried[i].from <= WindowDays
        /\ \A d \in n_start..n_end :
              \E i \in 1..Len(queried) : queried[i].from <= d /\ d <= queried[i].to
        /\ Len(queried) > 0 /\ queried[Len(queried)].to = n_end

\* C11: in HaberVerileriniAlma and Haberveri an end_date after today is
\* replaced by today before any window is built, and no query asks for a
\* date after today: every window's to is at most the end date in use and
\* its from lies before it.
C11_NoQueryAfterToday ==
    (n_pc # "idle" /\ n_mod \in {HVA, HV}) =>
        /\ n_end = Min(n_req_end, today)
        /\ \A i \in 1..Len(queried) :
              /\ queried[i].to <= n_end
              /\ queried[i].from < queried[i].to
              /\ queried[i].to <= today

\* C20: in HaberVerileriniAlma and Haberveri a window whose request raised
\* or returned a non-ok status adds no article and is followed by the
\* queries of all remaining windows, and the articles of the successful
\* windows are what the function returns.
C20_FailedWindowDoesNotStop ==
    (n_pc = "done" /\ n_mod \in {HVA, HV} /\ n_key) =>
        /\ \A i \in 1..Len(queried) :
              (queried[i].status # "ok" /\ queried[i].to < n_end) =>
                  (i < Len(queried) /\ queried[i + 1].from = queried[i].to)
        /\ (\E i \in 1..Len(queried) : queried[i].status # "ok") =>
              /\ queried[Len(queried)].to = n_end
              /\ all_articles # << >> =>
                    /\ n_result.src = "api"
                    /\ n_result.rows = DropDuplicates(all_articles)

\* a request whose end_date lies after today sent a query that ends today
C11_Witness ==
    /\ n_pc = "done" /\ n_mod \in {HVA, HV}
    /\ n_req_end > today
    /\ Len(queried) = 1 /\ queried[1].to = today

\* ------------------------------------------------------------------------
\* merge_stock_and_news_data
\* ------------------------------------------------------------------------
\* A frame is [cols, rows]; a row is a function from the frame's columns to
\* cells.  A cell is a number n/d, NaN, a datetime (day n, hour h) or text
\* (s, the sequence of the joined pieces).
Num(a, b) == [k |-> "num", n |-> a, d |-> b, h |-> 0, s |-> << >>]
NaN == [k |-> "nan", n |-> 0, d |-> 1, h |-> 0, s |-> << >>]
DateTime(day, hour) == [k |-> "dt", n |-> day, d |-> 1, h |-> hour, s |-> << >>]
Str(x) == [k |-> "str", n |-> 0, d |-> 1, h |-> 0, s |-> << x >>]
Joined(xs) == [k |-> "str", n |-> 0, d |-> 1, h |-> 0, s |-> xs]

\* pd.DataFrame()
EmptyDF == [cols |-> {}, rows |-> << >>]

\* DataFrame.empty: no rows or no columns
IsEmpty(df) == df.rows = << >> \/ df.cols = {}

\* `9 <= hour <= 12`: noon counted as sabah
get_time_of_day_inclusive(hour) ==
    IF 9 <= hour /\ hour <= 12 THEN "sabah"
    ELSE IF 12 <= hour /\ hour < 14 THEN "ogle"
    ELSE IF 14 <= hour /\ hour < 17 THEN "aksam"
    ELSE "diger"

\* def get_time_of_day(hour); the windows are sabah, öğle, akşam, diğer
get_time_of_day(hour) ==
    IF 9 <= hour /\ hour < 12 THEN "sabah"
    ELSE IF 12 <= hour /\ hour < 14 THEN "ogle"
    ELSE IF 14 <= hour /\ hour < 17 THEN "aksam"
    ELSE "diger"

TimeWindows == {"sabah", "ogle", "aksam", "diger"}

\* f"{col[0]}_{col[1]}" for the pivoted sentiment_compound columns
SentimentCol(w) ==
    CASE w = "sabah" -> "sentiment_compound_sabah"
      [] w = "ogle" -> "sentiment_compound_ogle"
      [] w = "aksam" -> "sentiment_compound_aksam"
      [] OTHER -> "sentiment_compound_diger"

\* f"{col[0]}_{col[1]}" for the pivoted title columns
TitleCol(w) ==
    CASE w = "sabah" -> "title_sabah"
      [] w = "ogle" -> "title_ogle"
      [] w = "aksam" -> "title_aksam"
      [] OTHER -> "title_diger"

\* the columns groupby("date").agg(...) is renamed to
DailyCols == {"daily_sentiment", "daily_pos", "daily_neg", "daily_neu",
              "daily_news_titles"}

\* `'sentiment' in col`, for the columns a merged frame can have
ContainsSentiment(c) ==
    c \in {"daily_sentiment", "sentiment_compound", "sentiment_pos",
           "sentiment_neg", "sentiment_neu"}
          \cup { SentimentCol(w) : w \in TimeWindows }

\* random.choice(range(9, 17)) for news without publishedAt
BusinessHours == 9..16

\* sum of column c over the rows with index in I
SumCol(rows, I, c) ==
    LET F[i \in 0..Len(rows)] ==
            IF i = 0 THEN 0
            ELSE F[i - 1] + (IF i \in I THEN rows[i][c].n ELSE 0)
    IN  F[Len(rows)]

\* Series.mean() of column c over the group I (not empty)
MeanCol(rows, I, c) == Num(SumCol(rows, I, c), Cardinality(I))

\* the titles of the group I, in row order
TitlesOf(rows, I) ==
    LET F[i \in 0..Len(rows)] ==
            IF i = 0 THEN << >>
            ELSE IF i \in I THEN F[i - 1] \o rows[i]["title"].s ELSE F[i - 1]
    IN  F[Len(rows)]

\* x[:2]
FirstTwo(xs) == SubSeq(xs, 1, Min(2, Len(xs)))

\* rows of s whose index satisfies the test, in order
SelectRows(s, keep) ==
    LET F[i \in 0..Len(s)] ==
            IF i = 0 THEN << >>
            ELSE IF i \in keep THEN Append(F[i - 1], s[i]) ELSE F[i - 1]
    IN  F[Len(s)]

\* the rows of every symbol are used
SelectStock_All(stock, sym) == stock

\* stock_df = stock_data[stock_data["Symbol"] == stock_symbol].copy();
\* if stock_df.empty: stock_df = stock_data.copy()
SelectStock(stock, sym) ==
    LET hit == { i \in 1..Len(stock.rows) : stock.rows[i]["Symbol"] = Str(sym) }
    IN  IF hit = {} THEN stock
        ELSE [cols |-> stock.cols, rows |-> SelectRows(stock.rows, hit)]

\* stock_df["date"] = pd.to_datetime(stock_df["Date"]).dt.date
AddDate(df) ==
    [cols |-> df.cols \cup {"date"},
     rows |-> [i \in 1..Len(df.rows) |->
                  ("date" :> Num(df.rows[i]["Date"].n, 1)) @@ df.rows[i]]]

\* line 925 left out: the date column keeps its own value
NewsWithTime_OwnDate(news, hrs) ==
    [i \in 1..Len(news.rows) |->
        LET r == news.rows[i]
            pub == IF "publishedAt" \in news.cols THEN r["publishedAt"]
                   ELSE DateTime(r["date"].n, hrs[i])
        IN  [date |-> IF "date" \in news.cols THEN r["date"].n ELSE pub.n,
             hour |-> pub.h,
             time_of_day |-> get_time_of_day(pub.h)]]

\* news_with_time: publishedAt created when missing (hrs are the random
\* hours), date replaced by publishedAt's date, time_of_day added
NewsWithTime(news, hrs) ==
    [i \in 1..Len(news.rows) |->
        LET r == news.rows[i]
            pub == IF "publishedAt" \in news.cols THEN r["publishedAt"]
                   ELSE DateTime(r["date"].n, hrs[i])
        IN  [date |-> pub.n, hour |-> pub.h,
             time_of_day |-> get_time_of_day(pub.h)]]

\* news_with_time["time_of_day"], if the function gets that far
TimeOfDayColumn(stock, news, hrs) ==
    IF /\ ~IsEmpty(stock) /\ {"Symbol", "Date"} \subseteq stock.cols
       /\ ~IsEmpty(news)
       /\ ("publishedAt" \in news.cols \/ "date" \in news.cols)
    THEN [i \in 1..Len(news.rows) |-> NewsWithTime(news, hrs)[i].time_of_day]
    ELSE << >>

\* one row of sentiment_df: daily_sentiment merged with the pivot, for a date
\* that has news.  wins are the windows that occur in the news.
SentimentRow(news, nwt, day, wins) ==
    LET I == { i \in 1..Len(nwt) : nwt[i].date = day }
        G(w) == { i \in I : nwt[i].time_of_day = w }
        daily ==
            [c \in DailyCols |->
                CASE c = "daily_sentiment" -> MeanCol(news.rows, I, "sentiment_compound")
                  [] c = "daily_pos" -> MeanCol(news.rows, I, "sentiment_pos")
                  [] c = "daily_neg" -> MeanCol(news.rows, I, "sentiment_neg")
                  [] c = "daily_neu" -> MeanCol(news.rows, I, "sentiment_neu")
                  [] OTHER -> Joined(TitlesOf(news.rows, I))]
        sent == [c \in { SentimentCol(w) : w \in wins } |->
                    LET w == CHOOSE x \in wins : SentimentCol(x) = c
                    IN  IF G(w) = {} THEN Num(0, 1)   \* time_pivot[col].fillna(0)
                        ELSE MeanCol(news.rows, G(w), "sentiment_compound")]
        titl == [c \in { TitleCol(w) : w \in wins } |->
                    LET w == CHOOSE x \in wins : TitleCol(x) = c
                    IN  IF G(w) = {} THEN NaN
                        ELSE Joined(FirstTwo(TitlesOf(news.rows, G(w))))]
    IN  daily @@ sent @@ titl

\* one row of daily_news (news without sentiment_compound)
DailyNewsRow(news, nwt, day) ==
    LET I == { i \in 1..Len(nwt) : nwt[i].date = day }
    IN  [c \in {"daily_news_titles"} |-> Joined(TitlesOf(news.rows, I))]

\* how="inner": rows whose date has no news are dropped
LeftMerge_Inner(df, right, rcols) ==
    LET keep == { i \in 1..Len(df.rows) : df.rows[i]["date"].n \in DOMAIN right }
        F[i \in 0..Len(df.rows)] ==
            IF i = 0 THEN << >>
            ELSE IF i \in keep
                 THEN Append(F[i - 1], df.rows[i] @@ right[df.rows[i]["date"].n])
                 ELSE F[i - 1]
    IN  [cols |-> df.cols \cup rcols, rows |-> F[Len(df.rows)]]

\* pd.merge(stock_df, right, on="date", how="left"): right maps every date
\* that has news to its one row, with the columns rcols
LeftMerge(df, right, rcols) ==
    [cols |-> df.cols \cup rcols,
     rows |-> [i \in 1..Len(df.rows) |->
                  LET day == df.rows[i]["date"].n
                  IN  df.rows[i] @@
                      (IF day \in DOMAIN right THEN right[day]
                       ELSE [c \in rcols |-> NaN])]]

\* the value the final loop gives a NaN of column c
FillValue(c) ==
    IF ContainsSentiment(c) THEN Num(0, 1)
    ELSE IF c = "daily_news_titles" THEN Str("Haber yok")
    ELSE NaN

\* merged_df[col].fillna(0) for the sentiment columns and
\* fillna("Haber yok") for daily_news_titles
FillMissing(df) ==
    [cols |-> df.cols,
     rows |-> [i \in 1..Len(df.rows) |->
                  [c \in df.cols |->
                      IF df.rows[i][c] = NaN THEN FillValue(c)
                      ELSE df.rows[i][c]]]]

\* the columns the aggregation of scored news reads
ScoredNeeds == {"sentiment_compound", "sentiment_pos", "sentiment_neg",
                "sentiment_neu", "title"}

\* the body of the try block: [err, frame]; err is an exception raised
\* inside it
MergeBody(stock, news, sym, hrs) ==
    LET Err == [err |-> TRUE, frame |-> EmptyDF]
        Ok(f) == [err |-> FALSE, frame |-> f]
    IN
    IF IsEmpty(stock) THEN Ok(EmptyDF)
    ELSE IF "Symbol" \notin stock.cols THEN Err
    ELSE IF "Date" \notin stock.cols THEN Ok(EmptyDF)
    ELSE
      LET stock_df == AddDate(SelectStock(stock, sym))
      IN  IF IsEmpty(news) THEN Ok(FillMissing(stock_df))
          ELSE IF "publishedAt" \notin news.cols /\ "date" \notin news.cols
               THEN Err
          ELSE
            LET nwt == NewsWithTime(news, hrs)
                days == { nwt[i].date : i \in 1..Len(nwt) }
                wins == { nwt[i].time_of_day : i \in 1..Len(nwt) }
            IN  IF "sentiment_compound" \in news.cols
                THEN IF ~(ScoredNeeds \subseteq news.cols) THEN Err
                     ELSE
                       LET rcols == DailyCols
                                    \cup { SentimentCol(w) : w \in wins }
                                    \cup { TitleCol(w) : w \in wins }
                           sentiment_df ==
                               [day \in days |-> SentimentRow(news, nwt, day, wins)]
                       IN  Ok(FillMissing(LeftMerge(stock_df, sentiment_df, rcols)))
                ELSE IF "title" \notin news.cols THEN Err
                     ELSE
                       LET daily_news ==
                               [day \in days |-> DailyNewsRow(news, nwt, day)]
                       IN  Ok(FillMissing(LeftMerge(stock_df, daily_news,
                                                    {"daily_news_titles"})))

\* stock_df = stock_data without .copy() in the fallback branch: the date
\* column is added to stock_data itself
ArgAfter_NoCopy(stock, sym) ==
    IF /\ ~IsEmpty(stock) /\ {"Symbol", "Date"} \subseteq stock.cols
       /\ \A i \in 1..Len(stock.rows) : stock.rows[i]["Symbol"] # Str(sym)
    THEN AddDate(stock)
    ELSE stock

\* The stock_data object when the function ends: stock_df is a .copy() of
\* it in both branches, so the date column is added to the copy only.
ArgAfter(stock, sym) == stock

\* try: <body> except Exception: return stock_data
\* [raised, error, frame]
merge_stock_and_news_data(stock, news, sym, hrs) ==
    LET b == MergeBody(stock, news, sym, hrs)
    IN  IF b.err
        THEN [raised |-> FALSE, error |-> TRUE, frame |-> ArgAfter(stock, sym)]
        ELSE [raised |-> FALSE, error |-> FALSE, frame |-> b.frame]

\* --- inputs ---
Symbols == {"A", "B"}
Dates == 1..MaxDate
\* the compound score of the i-th news item: scores of distinct items differ
\* in sign and magnitude so that the sums over distinct item sets differ
Score(i) == IF i % 2 = 1 THEN 0 - 2^(i - 1) ELSE 2^(i - 1)
\* hours of publishedAt in the merge inputs: one in sabah, one in öğle and
\* one outside every named window
MergeHours == {9, 13, 20}
AllHours == 0..23
TitleIds == << "n1", "n2", "n3", "n4" >>

FullStockCols == {"Symbol", "Date", "Close"}
\* stock frames that lack a column the function looks for
PartialStockColSets == { {"Symbol", "Close"}, {"Date", "Close"}, {"Close"} }

ScoredCols == {"date", "publishedAt", "title", "sentiment_compound",
               "sentiment_pos", "sentiment_neg", "sentiment_neu"}
UnscoredCols == {"date", "publishedAt", "title"}
\* news without publishedAt: the hour of every item is drawn at random
NoPublishedAtCols == ScoredCols \ {"publishedAt"}
\* column sets that make the function fail internally
BrokenColSets == { {"publishedAt", "title", "sentiment_compound"},
                   {"publishedAt", "sentiment_compound", "sentiment_pos",
                    "sentiment_neg", "sentiment_neu"},
                   {"publishedAt"},
                   {"title"} }

Max(a, b) == IF a >= b THEN a ELSE b

StockRow(C, sym, day, i) ==
    [c \in C |-> CASE c = "Symbol" -> Str(sym)
                   [] c = "Date" -> Num(day, 1)
                   [] OTHER -> Num(i, 1)]

\* the stock frame whose i-th row is of symbol f[i][1] on day f[i][2]
StockFrame(C, f) ==
    [cols |-> C,
     rows |-> [i \in DOMAIN f |-> StockRow(C, f[i][1], f[i][2], i)]]

NewsRow(C, own, pub, hour, i) ==
    [c \in C |-> CASE c = "date" -> Num(own, 1)
                   [] c = "publishedAt" -> DateTime(pub, hour)
                   [] c = "title" -> Str(TitleIds[i])
                   [] c = "sentiment_compound" -> Num(Score(i), 1)
                   [] c = "sentiment_pos" -> Num(Max(0, Score(i)), 1)
                   [] c = "sentiment_neg" -> Num(Max(0, 0 - Score(i)), 1)
                   [] OTHER -> Num(10 - Max(Score(i), 0 - Score(i)), 1)]

\* the news frame whose i-th item is published on day f[i][1] at hour
\* f[i][2]; the frame's own date column is lag days behind publishedAt
NewsFrame(C, lag, f) ==
    [cols |-> C,
     rows |-> [i \in DOMAIN f |->
                 NewsRow(C, f[i][1] - lag, f[i][1], f[i][2], i)]]

\* the random hours the call draws
HourDraws(stock, news) ==
    IF /\ ~IsEmpty(news)
       /\ "publishedAt" \notin news.cols
       /\ "date" \in news.cols
    THEN [1..Len(news.rows) -> BusinessHours]
    ELSE { << >> }

\* the rows of one symbol are its trading days in order, one row a day
Chronological(f) ==
    \A i, j \in DOMAIN f :
        (i < j /\ f[i][1] = f[j][1]) => f[i][2] < f[j][2]

\* stock frames of up to MaxStock rows, and one-row or empty frames that
\* lack Symbol or Date
StockInputs ==
    \/ \E n \in 0..MaxStock : \E f \in [1..n -> Symbols \X Dates] :
          /\ Chronological(f)
          /\ stock_data = StockFrame(FullStockCols, f)
    \/ \E C \in PartialStockColSets, n \in 0..1 :
          \E f \in [1..n -> {"A"} \X {1}] :
             stock_data = StockFrame(C, f)

\* scored news of up to MaxNews items; unscored news of up to MaxNews items,
\* all in one window; scored news without publishedAt of up to MaxDrawn
\* items on one day; and one item of each broken shape
NewsInputs ==
    \/ \E n \in 0..MaxNews, lag \in {0, 1} :
          \E f \in [1..n -> Dates \X MergeHours] :
             news_data = NewsFrame(ScoredCols, lag, f)
    \/ \E n \in 0..MaxNews, lag \in {0, 1} :
          \E f \in [1..n -> Dates \X {9}] :
             news_data = NewsFrame(UnscoredCols, lag, f)
    \/ \E n \in 1..MaxDrawn : \E f \in [1..n -> {1} \X {0}] :
          news_data = NewsFrame(NoPublishedAtCols, 0, f)
    \/ \E C \in BrokenColSets : \E f \in [1..1 -> Dates \X {9}] :
          news_data = NewsFrame(C, 0, f)

MergeInit ==
    /\ RetryOff /\ NewsOff /\ OthersOff
    /\ m_pc = "input"
    /\ StockInputs
    /\ NewsInputs
    /\ stock_symbol = "A"
    /\ m_hours = << >>
    /\ m_windows = << >>
    /\ m_result = [raised |-> FALSE, error |-> FALSE, frame |-> EmptyDF]
    /\ m_stock_after = stock_data

\* one news item with any hour of the day
BucketInit ==
    /\ RetryOff /\ NewsOff /\ OthersOff
    /\ m_pc = "input"
    /\ \E n \in 0..1 : \E f \in [1..n -> Symbols \X Dates] :
          stock_data = StockFrame(FullStockCols, f)
    /\ \E lag \in {0, 1} : \E f \in [1..1 -> Dates \X AllHours] :
          news_data = NewsFrame(ScoredCols, lag, f)
    /\ stock_symbol = "A"
    /\ m_hours = << >>
    /\ m_windows = << >>
    /\ m_result = [raised |-> FALSE, error |-> FALSE, frame |-> EmptyDF]
    /\ m_stock_after = stock_data

MergeCall ==
    /\ m_pc = "input"
    /\ \E hrs \in HourDraws(stock_data, news_data) :
        /\ m_hours' = hrs
        /\ m_windows' = TimeOfDayColumn(stock_data, news_data, hrs)
        /\ m_result' = merge_stock_and_news_data(stock_data, news_data,
                                                 stock_symbol, hrs)
    /\ m_stock_after' = ArgAfter(stock_data, stock_symbol)
    /\ m_pc' = "done"
    /\ UNCHANGED << stock_data, news_data, stock_symbol >>
    /\ UNCHANGED << retry_vars, news_vars, other_vars >>

MergeNext == MergeCall

SpecMerge == MergeInit /\ [][MergeNext]_vars
SpecBucket == BucketInit /\ [][MergeNext]_vars

\* --- what the claims speak of, read from the arguments ---
\* day and hour of publishedAt of news item i (the drawn hour and the date
\* column when the frame has no publishedAt)
PubDay(i) ==
    IF "publishedAt" \in news_data.cols THEN news_data.rows[i]["publishedAt"].n
    ELSE news_data.rows[i]["date"].n
PubHour(i) ==
    IF "publishedAt" \in news_data.cols THEN news_data.rows[i]["publishedAt"].h
    ELSE m_hours[i]

NewsIdx == 1..Len(news_data.rows)
Frame == m_result.frame
Merged == m_pc = "done" /\ ~m_result.error /\ "daily_sentiment" \in Frame.cols

\* C4: every news item gets exactly one window from the hour h of its
\* publishedAt: sabah for 9 <= h < 12, ogle for 12 <= h < 14, aksam for
\* 14 <= h < 17, diger for every other hour of 0..23.
C4_WindowOfHour ==
    (m_pc = "done" /\ m_windows # << >>) =>
        \A i \in NewsIdx :
            LET h == PubHour(i)
                w == m_windows[i]
            IN  /\ h \in 0..23
                /\ w \in TimeWindows
                /\ (w = "sabah") <=> (9 <= h /\ h < 12)
                /\ (w = "ogle") <=> (12 <= h /\ h < 14)
                /\ (w = "aksam") <=> (14 <= h /\ h < 17)
                /\ (w = "diger") <=> (h < 9 \/ h >= 17)

\* an item published at 12:xx was put into ogle, the first hour of a window
C4_Witness ==
    /\ m_pc = "done" /\ Len(m_windows) = 1
    /\ PubHour(1) = 12 /\ m_windows[1] = "ogle"

\* the claimed window of an hour
ClaimedWindow(h) ==
    CASE h \in {9, 10, 11} -> "sabah"
      [] h \in {12, 13} -> "ogle"
      [] h \in {14, 15, 16} -> "aksam"
      [] OTHER -> "diger"

\* news items published on a day, and those of them in a window
ItemsOn(day) == { i \in NewsIdx : PubDay(i) = day }
ItemsIn(day, w) == { i \in ItemsOn(day) : ClaimedWindow(PubHour(i)) = w }

RECURSIVE CompoundSum(_)
CompoundSum(I) ==
    IF I = {} THEN 0
    ELSE LET i == CHOOSE x \in I : TRUE
         IN  news_data.rows[i]["sentiment_compound"].n + CompoundSum(I \ {i})

\* the cell holds the arithmetic mean of sentiment_compound over I
IsMeanOf(cell, I) ==
    cell.k = "num" /\ cell.d > 0 /\ cell.n * Cardinality(I) = CompoundSum(I) * cell.d

StockIdx == 1..Len(stock_data.rows)
HasSymbol(i) ==
    "Symbol" \in stock_data.cols /\ stock_data.rows[i]["Symbol"] = Str(stock_symbol)

\* the output rows are exactly the input rows with index in S, in input
\* order, each with its stock columns as they were
RowsAre(S) ==
    /\ Len(Frame.rows) = Cardinality(S)
    /\ \A k \in 1..Len(Frame.rows) :
          \E i \in S :
             /\ Cardinality({ j \in S : j < i }) = k - 1
             /\ \A c \in stock_data.cols : Frame.rows[k][c] = stock_data.rows[i][c]

\* C3 as stated: for stock data with a Date column the result has exactly
\* one row for each input row whose Symbol equals stock_symbol, in input
\* order and with the stock columns unchanged.
C3_OneRowPerSymbolRow ==
    (m_pc = "done" /\ "Date" \in stock_data.cols) =>
        RowsAre({ i \in StockIdx : HasSymbol(i) })

\* the rows the function works on: those of stock_symbol, or all rows when
\* no row has that Symbol or the merge failed internally
SelectedIdx ==
    IF m_result.error \/ { i \in StockIdx : HasSymbol(i) } = {}
    THEN StockIdx
    ELSE { i \in StockIdx : HasSymbol(i) }

\* C3 amended: for stock data with a Date column the result has exactly one
\* row for each selected input row (the rows whose Symbol equals
\* stock_symbol, or every row when no row has that Symbol or when an
\* internal error makes the function return stock_data), in input order and
\* with the stock columns unchanged.
C3_OneRowPerSelectedRow ==
    (m_pc = "done" /\ "Date" \in stock_data.cols) => RowsAre(SelectedIdx)

\* two news items on the date of the one selected row, another stock row
\* filtered out
C3_Witness ==
    /\ Merged
    /\ Len(stock_data.rows) >= 2
    /\ Len(Frame.rows) = 1
    /\ Cardinality(ItemsOn(Frame.rows[1]["date"].n)) >= 2
    /\ \E i \in StockIdx : ~HasSymbol(i)

\* C5: daily_sentiment of a row is the mean of sentiment_compound over the
\* news items whose publishedAt falls on the row's date, and
\* sentiment_compound_<window> the mean over those of them in the window;
\* the date of an item is that of its publishedAt, not its date column.
C5_MeansPerDayAndWindow ==
    Merged =>
        \A k \in 1..Len(Frame.rows) :
            LET day == Frame.rows[k]["date"].n
            IN  /\ ItemsOn(day) # {} =>
                      IsMeanOf(Frame.rows[k]["daily_sentiment"], ItemsOn(day))
                /\ \A w \in TimeWindows :
                      ItemsIn(day, w) # {} =>
                          /\ SentimentCol(w) \in Frame.cols
                          /\ IsMeanOf(Frame.rows[k][SentimentCol(w)], ItemsIn(day, w))

\* a row with two items of different score in different windows on its date,
\* whose date column names another day
C5_Witness ==
    /\ Merged
    /\ "publishedAt" \in news_data.cols
    /\ \E k \in 1..Len(Frame.rows) :
          LET day == Frame.rows[k]["date"].n
          IN  \E i, j \in ItemsOn(day) :
                 /\ news_data.rows[i]["sentiment_compound"] #
                        news_data.rows[j]["sentiment_compound"]
                 /\ ClaimedWindow(PubHour(i)) # ClaimedWindow(PubHour(j))
                 /\ news_data.rows[i]["date"].n # day

\* the score columns the merge adds
AddedScoreCols ==
    {"daily_sentiment", "daily_pos", "daily_neg", "daily_neu"}
    \cup { SentimentCol(w) : w \in TimeWindows }

\* C6: with scored news, every stock row whose date has no news item has 0
\* in every sentiment score column the merge added and "Haber yok" in
\* daily_news_titles, and no missing value in these columns.
C6_NoNewsRowsAreZero ==
    Merged =>
        \A k \in 1..Len(Frame.rows) :
            ItemsOn(Frame.rows[k]["date"].n) = {} =>
                /\ \A c \in AddedScoreCols \cap Frame.cols :
                      Frame.rows[k][c] = Num(0, 1)
                /\ Frame.rows[k]["daily_news_titles"] = Str("Haber yok")

\* C8 as stated: the function never raises; empty stock data or stock data
\* without a Date column gives an empty frame; empty news gives the selected
\* stock rows alone; an internal error gives back stock_data unchanged.
C8_NeverRaises ==
    (m_pc = "done") =>
        /\ ~m_result.raised
        /\ m_stock_after = stock_data
        /\ (IsEmpty(stock_data) \/ "Date" \notin stock_data.cols) => Frame = EmptyDF
        /\ (~IsEmpty(stock_data) /\ "Date" \in stock_data.cols /\ IsEmpty(news_data))
              => (RowsAre(SelectedIdx) /\ Frame.cols = stock_data.cols \cup {"date"})
        /\ m_result.error => Frame = stock_data

\* C8 amended: the function never raises; empty stock data, or stock data
\* that has a Symbol column but no Date column, gives an empty frame; empty
\* news gives the selected stock rows alone; an internal error (a missing
\* Symbol column is one) gives back stock_data unchanged.
C8_NeverRaisesAmended ==
    (m_pc = "done") =>
        /\ ~m_result.raised
        /\ m_stock_after = stock_data
        /\ IsEmpty(stock_data) => Frame = EmptyDF
        /\ (~IsEmpty(stock_data) /\ "Symbol" \in stock_data.cols
               /\ "Date" \notin stock_data.cols) => Frame = EmptyDF
        /\ (~IsEmpty(stock_data) /\ {"Symbol", "Date"} \subseteq stock_data.cols
               /\ IsEmpty(news_data))
              => (~m_result.error /\ RowsAre(SelectedIdx)
                    /\ Frame.cols = stock_data.cols \cup {"date"})
        /\ m_result.error => Frame = stock_data

\* an internal error after the date column was added to the working copy,
\* in the branch that works on all of stock_data
C8_Witness ==
    /\ m_pc = "done" /\ m_result.error
    /\ {"Symbol", "Date"} \subseteq stock_data.cols
    /\ ~IsEmpty(stock_data) /\ ~IsEmpty(news_data)
    /\ \A i \in StockIdx : ~HasSymbol(i)

\* the windows the sentiment visualisation reads
ReadWindows == {"sabah", "ogle", "aksam"}

\* C18: after non-empty scored news was merged, every output row has a
\* number in sentiment_compound_sabah, sentiment_compound_öğle and
\* sentiment_compound_akşam, whichever windows the news items fell into.
C18_EveryWindowHasValue ==
    (Merged /\ ~IsEmpty(news_data)) =>
        \A w \in ReadWindows :
            /\ SentimentCol(w) \in Frame.cols
            /\ \A k \in 1..Len(Frame.rows) :
                  Frame.rows[k][SentimentCol(w)].k = "num"

\* C19 as stated: for non-empty stock_data every output row's Symbol is
\* stock_symbol.
C19_OnlyRequestedSymbol ==
    (m_pc = "done" /\ ~IsEmpty(stock_data)) =>
        \A k \in 1..Len(Frame.rows) :
            /\ "Symbol" \in Frame.cols
            /\ Frame.rows[k]["Symbol"] = Str(stock_symbol)

\* C19 amended: for non-empty stock_data that has a row of stock_symbol,
\* every output row's Symbol is stock_symbol unless an internal error makes
\* the function return stock_data; when no row has that Symbol the rows of
\* all symbols are used, and after an internal error the result is
\* stock_data with the rows of every symbol.
C19_RequestedSymbolWhenPresent ==
    (m_pc = "done" /\ ~IsEmpty(stock_data)) =>
        /\ ((\E i \in StockIdx : HasSymbol(i)) /\ ~m_result.error) =>
              \A k \in 1..Len(Frame.rows) :
                  Frame.rows[k]["Symbol"] = Str(stock_symbol)
        /\ ({"Symbol", "Date"} \subseteq stock_data.cols
               /\ ~\E i \in StockIdx : HasSymbol(i)) => RowsAre(StockIdx)
        /\ m_result.error => Frame.rows = stock_data.rows

\* news merged into stock data of both symbols: only the rows of
\* stock_symbol are in the result
C19_Witness ==
    /\ m_pc = "done" /\ ~m_result.error /\ ~IsEmpty(news_data)
    /\ \E i, j \in StockIdx : HasSymbol(i) /\ ~HasSymbol(j)
    /\ Len(Frame.rows) = Cardinality({ i \in StockIdx : HasSymbol(i) })
    /\ \A k \in 1..Len(Frame.rows) :
          Frame.rows[k]["Symbol"] = Str(stock_symbol)

\* ------------------------------------------------------------------------
\* transform_data (data_preprocessing.py)
\* ------------------------------------------------------------------------
\* A bar is a row of df: Symbol, Date and the prices.  A return is the exact
\* fraction n/d with d > 0; NaN is 0/0.
Frac(a, b) == [n |-> a, d |-> b]
NaNFrac == Frac(0, 0)
FracSub(x, y) ==
    IF x.d = 0 \/ y.d = 0 THEN NaNFrac
    ELSE Frac(x.n * y.d - y.n * x.d, x.d * y.d)
\* NaN in a column of prices, dates or symbols
MissingNum == 0 - 1
MissingStr == "nan"
\* x <= a/b for fractions with positive denominators
FracLE(x, a, b) == x.n * b <= a * x.d

\* (Close - Open) / Open
DailyReturn(bar) == Frac(bar.Close - bar.Open, bar.Open)

\* df[df['Symbol'] == symbol].reset_index(drop=True)
BarsOf(df, symbol) == SelectSeq(df, LAMBDA b : b.Symbol = symbol)

\* pd.cut with bins [-inf, -0.01, 0.01, inf) closed on the left
Category_LeftClosed(rp) ==
    IF rp.d = 0 THEN MissingStr
    ELSE IF ~FracLE(rp, -1, 100) \/ rp.n * 100 = 0 - rp.d
    THEN IF FracLE(rp, 1, 100) /\ rp.n * 100 # rp.d THEN "Nötr"
         ELSE "Pozitif Sapma"
    ELSE "Negatif Sapma"

\* pd.cut(rp, bins=[-inf, -0.01, 0.01, inf], labels=[...]): the intervals
\* are closed on the right; NaN falls into no interval
Category(rp) ==
    IF rp.d = 0 THEN MissingStr
    ELSE IF FracLE(rp, -1, 100) THEN "Negatif Sapma"
    ELSE IF FracLE(rp, 1, 100) THEN "Nötr"
    ELSE "Pozitif Sapma"

\* the row of result_df built from the k-th stock bar and the k-th index bar
TransformRow(sb, ib) ==
    LET rp == FracSub(DailyReturn(sb), DailyReturn(ib))
    IN  [Symbol |-> sb.Symbol, Date |-> sb.Date, Open |-> sb.Open,
         High |-> sb.High, Low |-> sb.Low, Close |-> sb.Close,
         Volume |-> sb.Volume,
         daily_return |-> DailyReturn(sb),
         index_open |-> ib.Open, index_high |-> ib.High,
         index_low |-> ib.Low, index_close |-> ib.Close,
         index_volume |-> ib.Volume,
         index_daily_return |-> DailyReturn(ib),
         relative_performance |-> rp,
         relative_perf_category |-> Category(rp)]

\* the row of result_df when stock_df has no rows: the first assigned array
\* gives the frame its index, the stock columns are NaN
IndexOnlyRow(ib) ==
    [Symbol |-> MissingStr, Date |-> MissingNum, Open |-> MissingNum,
     High |-> MissingNum, Low |-> MissingNum, Close |-> MissingNum,
     Volume |-> MissingNum,
     daily_return |-> NaNFrac,
     index_open |-> ib.Open, index_high |-> ib.High,
     index_low |-> ib.Low, index_close |-> ib.Close,
     index_volume |-> ib.Volume,
     index_daily_return |-> DailyReturn(ib),
     relative_performance |-> FracSub(NaNFrac, DailyReturn(ib)),
     relative_perf_category |-> Category(FracSub(NaNFrac, DailyReturn(ib)))]

\* transform_data(df, stock_symbol, index_symbol): the index columns are
\* assigned as arrays, by position.  A frame without rows takes the length
\* of the first array assigned to it; arrays of another length than a
\* non-empty frame raise ValueError.
transform_data(df, stock, index) ==
    LET stock_df == BarsOf(df, stock)
        index_df == BarsOf(df, index)
    IN  IF df = << >> THEN [raised |-> FALSE, rows |-> df]
        ELSE IF Len(stock_df) = 0
        THEN [raised |-> FALSE,
              rows |-> [k \in 1..Len(index_df) |-> IndexOnlyRow(index_df[k])]]
        ELSE IF Len(index_df) # Len(stock_df)
        THEN [raised |-> TRUE, rows |-> << >>]
        ELSE [raised |-> FALSE,
              rows |-> [k \in 1..Len(stock_df) |->
                          TransformRow(stock_df[k], index_df[k])]]

StockSymbol == "A"
IndexSymbol == "B"
BaseOpen == 100
\* closing prices: returns of -1 %, 0 % and 2 % on BaseOpen
Closes == {99, 100, 102}

Bar(sym, day, close) ==
    [Symbol |-> sym, Date |-> day, Open |-> BaseOpen,
     High |-> Max(BaseOpen, close) + day, Low |-> Min(BaseOpen, close) - day,
     Close |-> close, Volume |-> 1000 * day]

\* df of up to MaxBars bars of the stock and the index, each symbol's bars
\* in order of date
TransformInit ==
    /\ RetryOff /\ NewsOff /\ MergeOff
    /\ t_pc = "input"
    /\ \E n \in 0..MaxBars : \E f \in [1..n -> Symbols \X Dates \X Closes] :
          /\ Chronological(f)
          /\ t_df = [i \in 1..n |-> Bar(f[i][1], f[i][2], f[i][3])]
    /\ t_result = [raised |-> FALSE, rows |-> << >>]
    /\ MainOff /\ FormatOff /\ IntegrateOff

TransformCall ==
    /\ t_pc = "input"
    /\ t_result' = transform_data(t_df, StockSymbol, IndexSymbol)
    /\ t_pc' = "done"
    /\ UNCHANGED t_df
    /\ UNCHANGED << retry_vars, news_vars, merge_vars, main_vars, format_vars,
                    integrate_vars >>

TransformNext == TransformCall

SpecTransform == TransformInit /\ [][TransformNext]_vars

\* the index's bar of a day in df
IndexBarsOn(day) ==
    { i \in 1..Len(t_df) : t_df[i].Symbol = IndexSymbol /\ t_df[i].Date = day }

\* C12: the call returns, and every row of the result carries the values of
\* the index's bar of the row's own date and relative_performance =
\* daily_return - index_daily_return of that date, also when stock and
\* index have bars on different dates.
C12_IndexOfSameDate ==
    (t_pc = "done") =>
        /\ ~t_result.raised
        /\ \A k \in 1..Len(t_result.rows) :
              LET row == t_result.rows[k]
              IN  \E i \in IndexBarsOn(row.Date) :
                     /\ row.index_open = t_df[i].Open
                     /\ row.index_high = t_df[i].High
                     /\ row.index_low = t_df[i].Low
                     /\ row.index_close = t_df[i].Close
                     /\ row.index_volume = t_df[i].Volume
                     /\ row.index_daily_return = DailyReturn(t_df[i])
                     /\ row.relative_performance =
                           FracSub(row.daily_return, DailyReturn(t_df[i]))

Labels == {"Negatif Sapma", "Nötr", "Pozitif Sapma"}

\* C13: every row of the result whose relative_performance rp is defined
\* has exactly one category: Negatif Sapma for rp <= -0.01, Nötr for
\* -0.01 < rp <= 0.01, Pozitif Sapma for rp > 0.01.
C13_CategoryOfRelativePerformance ==
    (t_pc = "done" /\ ~t_result.raised) =>
        \A k \in 1..Len(t_result.rows) :
            LET rp == t_result.rows[k].relative_performance
                c == t_result.rows[k].relative_perf_category
            IN  rp.d # 0 =>
                /\ c \in Labels
                /\ (c = "Negatif Sapma") <=> (rp.n * 100 <= 0 - rp.d)
                /\ (c = "Nötr") <=>
                      (rp.n * 100 > 0 - rp.d /\ rp.n * 100 <= rp.d)
                /\ (c = "Pozitif Sapma") <=> (rp.n * 100 > rp.d)

\* a row on the upper edge: rp = 0.01 is Nötr
C13_Witness ==
    /\ t_pc = "done" /\ ~t_result.raised
    /\ \E k \in 1..Len(t_result.rows) :
          /\ t_result.rows[k].relative_performance.d # 0
          /\ t_result.rows[k].relative_performance.n * 100 =
                t_result.rows[k].relative_performance.d
          /\ t_result.rows[k].relative_perf_category = "Nötr"

\* ------------------------------------------------------------------------
\* The main block of HaberVerileriniAlma.py
\* ------------------------------------------------------------------------
GSD == "get_stock_data"
DIRECT == "get_direct_stock_data"
ALT == "get_stock_data_alternative"

\* What a stock source gives: a frame of 0..MaxRows rows.  get_stock_data is
\* imported and called inside a try: it may also raise (-1).  The two
\* functions of this file return an empty frame from their own except
\* clauses.
Raised == -1
Outcomes(src) == IF src = GSD THEN {Raised} \cup (0..MaxRows) ELSE 0..MaxRows

Result(src, o) == [src |-> src, rows |-> o]
\* stock_data after a call that returned
Got(src, o) == [src |-> (IF o > 0 THEN src ELSE "empty"), rows |-> o]

\* the alternative source is consulted whatever stock_data holds
NeedsAlternative_Always(stock) == TRUE

\* `if stock_data.empty:` before get_stock_data_alternative
NeedsAlternative(stock) == stock.rows = 0

MainInit ==
    /\ RetryOff /\ NewsOff /\ MergeOff /\ TransformOff /\ FormatOff
    /\ IntegrateOff
    /\ s_pc = "validate"
    /\ s_valid \in BOOLEAN \X BOOLEAN
    /\ s_formatted = FALSE
    /\ s_consulted = << >>
    /\ s_stock = [src |-> "none", rows |-> 0]
    /\ s_news = -1
    /\ s_merged = -1

\* check_symbol_exists of both symbols; if one is not valid both are
\* reformatted and checked again
MainValidate ==
    /\ s_pc = "validate"
    /\ IF s_valid[1] /\ s_valid[2]
       THEN UNCHANGED << s_valid, s_formatted >>
       ELSE /\ s_formatted' = TRUE
            /\ s_valid' \in BOOLEAN \X BOOLEAN
    /\ s_pc' = "try"
    /\ UNCHANGED << s_consulted, s_stock, s_news, s_merged >>
    /\ UNCHANGED << retry_vars, news_vars, merge_vars, transform_vars,
                    format_vars, integrate_vars >>

\* try: stock_data = get_stock_data(...)
MainGetStockData ==
    /\ s_pc = "try"
    /\ \E o \in Outcomes(GSD) :
        /\ s_consulted' = Append(s_consulted, Result(GSD, o))
        /\ IF o = Raised
           THEN /\ s_pc' = "direct_except"
                /\ UNCHANGED s_stock
           ELSE /\ s_stock' = Got(GSD, o)
                /\ s_pc' = IF o = 0 THEN "direct_try" ELSE "alt_check"
    /\ UNCHANGED << s_valid, s_formatted, s_news, s_merged >>
    /\ UNCHANGED << retry_vars, news_vars, merge_vars, transform_vars,
                    format_vars, integrate_vars >>

\* if stock_data.empty: stock_data = get_direct_stock_data(...)  (in the try)
MainDirectInTry ==
    /\ s_pc = "direct_try"
    /\ \E o \in Outcomes(DIRECT) :
        /\ s_consulted' = Append(s_consulted, Result(DIRECT, o))
        /\ s_stock' = Got(DIRECT, o)
    /\ s_pc' = "alt_check"
    /\ UNCHANGED << s_valid, s_formatted, s_news, s_merged >>
    /\ UNCHANGED << retry_vars, news_vars, merge_vars, transform_vars,
                    format_vars, integrate_vars >>

\* except Exception: stock_data = get_direct_stock_data(...)
MainDirectInExcept ==
    /\ s_pc = "direct_except"
    /\ \E o \in Outcomes(DIRECT) :
        /\ s_consulted' = Append(s_consulted, Result(DIRECT, o))
        /\ s_stock' = Got(DIRECT, o)
    /\ s_pc' = "alt_check"
    /\ UNCHANGED << s_valid, s_formatted, s_news, s_merged >>
    /\ UNCHANGED << retry_vars, news_vars, merge_vars, transform_vars,
                    format_vars, integrate_vars >>

\* if stock_data.empty: stock_data = get_stock_data_alternative(...)
MainAlternative ==
    /\ s_pc = "alt_check"
    /\ IF NeedsAlternative(s_stock)
       THEN \E o \in Outcomes(ALT) :
               /\ s_consulted' = Append(s_consulted, Result(ALT, o))
               /\ s_stock' = Got(ALT, o)
       ELSE UNCHANGED << s_consulted, s_stock >>
    /\ s_pc' = "decide"
    /\ UNCHANGED << s_valid, s_formatted, s_news, s_merged >>
    /\ UNCHANGED << retry_vars, news_vars, merge_vars, transform_vars,
                    format_vars, integrate_vars >>

\* if stock_data.empty: <log the error> else: save, news_data = get_news_data
MainNews ==
    /\ s_pc = "decide"
    /\ IF s_stock.rows = 0
       THEN /\ s_pc' = "stopped"
            /\ UNCHANGED s_news
       ELSE /\ s_news' \in 0..MaxRows
            /\ s_pc' = IF s_news' = 0 THEN "no_news" ELSE "merge"
    /\ UNCHANGED << s_valid, s_formatted, s_consulted, s_stock, s_merged >>
    /\ UNCHANGED << retry_vars, news_vars, merge_vars, transform_vars,
                    format_vars, integrate_vars >>

\* merged_data = merge_stock_and_news_data(stock_data, news_data, stock_symbol)
MainMerge ==
    /\ s_pc = "merge"
    /\ s_merged' \in 0..MaxRows
    /\ s_pc' = "finished"
    /\ UNCHANGED << s_valid, s_formatted, s_consulted, s_stock, s_news >>
    /\ UNCHANGED << retry_vars, news_vars, merge_vars, transform_vars,
                    format_vars, integrate_vars >>

MainNext ==
    \/ MainValidate \/ MainGetStockData \/ MainDirectInTry
    \/ MainDirectInExcept \/ MainAlternative \/ MainNews \/ MainMerge

SpecMain == MainInit /\ [][MainNext]_vars

SourceOrder == << GSD, DIRECT, ALT >>
MainEnded == s_pc \in {"stopped", "no_news", "finished"}

\* C14: the sources are consulted in the order get_stock_data,
\* get_direct_stock_data, get_stock_data_alternative, each at most once; a
\* source is consulted only after every earlier one returned an empty frame
\* or raised; the first non-empty result is stock_data from then on; and
\* the run ends without fetching news only when all three gave no data.
C14_SourcesInOrder ==
    /\ Len(s_consulted) <= 3
    /\ \A i \in 1..Len(s_consulted) :
          /\ s_consulted[i].src = SourceOrder[i]
          /\ \A j \in 1..(i - 1) : s_consulted[j].rows <= 0
    /\ \A i \in 1..Len(s_consulted) :
          s_consulted[i].rows > 0 => s_stock = s_consulted[i]
    /\ (MainEnded /\ s_news = -1) =>
          /\ Len(s_consulted) = 3
          /\ \A i \in 1..3 : s_consulted[i].rows <= 0
    /\ (MainEnded /\ s_news # -1) => s_stock.rows > 0

\* get_stock_data raised, get_direct_stock_data returned an empty frame and
\* the news were fetched with the data of get_stock_data_alternative
C14_Witness ==
    /\ MainEnded /\ s_news >= 0
    /\ Len(s_consulted) = 3
    /\ s_consulted[1].rows = Raised /\ s_consulted[2].rows = 0
    /\ s_stock.src = ALT

\* ------------------------------------------------------------------------
\* format_stock_symbol (HaberVerileriniAlma.py)
\* ------------------------------------------------------------------------
\* A string is the sequence of its characters; "Idot" stands for the
\* capital dotted I of "BORSA İSTANBUL".
LowerChars == << "a", "b", "c", "d", "e", "f", "g", "h", "i", "j", "k", "l", "m", "n", "o", "p", "q", "r", "s", "t", "u", "v", "w", "x", "y", "z" >>
UpperChars == << "A", "B", "C", "D", "E", "F", "G", "H", "I", "J", "K", "L", "M", "N", "O", "P", "Q", "R", "S", "T", "U", "V", "W", "X", "Y", "Z" >>

\* str.upper() of one character
UpperChar(c) ==
    IF \E i \in 1..Len(LowerChars) : LowerChars[i] = c
    THEN UpperChars[CHOOSE i \in 1..Len(LowerChars) : LowerChars[i] = c]
    ELSE c

\* str.upper()
UpperStr(str) == [i \in 1..Len(str) |-> UpperChar(str[i])]

RECURSIVE Strip(_)
\* str.strip()
Strip(str) ==
    IF str = << >> THEN str
    ELSE IF Head(str) = " " THEN Strip(Tail(str))
    ELSE IF str[Len(str)] = " " THEN Strip(SubSeq(str, 1, Len(str) - 1))
    ELSE str

\* a symbol is never taken to be formatted already
HasDot_Never(str) == FALSE

\* "." in symbol
HasDot(str) == \E i \in 1..Len(str) : str[i] = "."

DotIS == << ".", "I", "S" >>

\* the exchange names of the Turkish and of the US branch
BistNames ==
    { << "B", "I", "S", "T" >>,
      << "B", "O", "R", "S", "A", " ", "I", "S", "T", "A", "N", "B", "U", "L" >>,
      << "B", "O", "R", "S", "A", " ", "Idot", "S", "T", "A", "N", "B", "U", "L" >>,
      << "X", "U", "1", "0", "0" >> }
UsNames ==
    { << "N", "A", "S", "D", "A", "Q" >>,
      << "N", "Y", "S", "E" >>,
      << "U", "S" >>,
      << "U", "S", "A" >>,
      << "A", "M", "E", "R", "I", "C", "A" >> }
\* the keys of common_symbols; the value of a key is the key with ".IS"
CommonSymbols ==
    { << "T", "H", "Y", "A", "O" >>,
      << "A", "S", "E", "L", "S" >>,
      << "I", "S", "C", "T", "R" >>,
      << "G", "A", "R", "A", "N" >> }
common_symbols == [k \in CommonSymbols |-> k \o DotIS]

format_stock_symbol(symbol, exchange) ==
    LET sym == Strip(UpperStr(symbol))
        exc == Strip(UpperStr(exchange))
    IN  IF HasDot(sym) THEN sym
        ELSE IF exchange # << >> /\ exc \in BistNames THEN sym \o DotIS
        ELSE IF exchange # << >> /\ exc \in UsNames THEN sym
        ELSE IF sym \in DOMAIN common_symbols THEN common_symbols[sym]
        ELSE sym

\* the symbols and exchanges given: words in lower or upper case, with up
\* to MaxPad blanks on either side and with or without a suffix
Words ==
    { << "t", "h", "y", "a", "o" >>,
      << "g", "a", "r", "a", "n" >>,
      << "a", "a", "p", "l" >>,
      << "x" >>,
      << >> }
Suffixes ==
    { << >>,
      << ".", "i", "s" >>,
      << ".", "I", "S" >>,
      << ".", "u", "s" >>,
      << "." >> }
Exchanges ==
    { << >>,
      << " " >>,
      << "B", "I", "S", "T" >>,
      << "b", "i", "s", "t", " " >>,
      << " ", "B", "o", "r", "s", "a", " ", "i", "s", "t", "a", "n", "b", "u", "l" >>,
      << "B", "o", "r", "s", "a", " ", "Idot", "s", "t", "a", "n", "b", "u", "l" >>,
      << "x", "u", "1", "0", "0" >>,
      << "n", "a", "s", "d", "a", "q" >>,
      << " ", "N", "Y", "S", "E" >>,
      << "U", "s" >>,
      << "L", "S", "E" >> }
Blanks(n) == [i \in 1..n |-> " "]

FormatInit ==
    /\ RetryOff /\ NewsOff /\ MergeOff /\ TransformOff /\ MainOff
    /\ IntegrateOff
    /\ f_pc = "input"
    /\ \E w \in Words, x \in Suffixes, upper \in BOOLEAN,
          l \in 0..MaxPad, r \in 0..MaxPad :
          f_symbol = Blanks(l) \o (IF upper THEN UpperStr(w) ELSE w) \o x
                        \o Blanks(r)
    /\ f_exchange \in Exchanges
    /\ f_once = << >>
    /\ f_twice = << >>

\* stock_symbol = format_stock_symbol(stock_symbol, exchange)
FormatCall ==
    /\ f_pc = "input"
    /\ f_once' = format_stock_symbol(f_symbol, f_exchange)
    /\ f_pc' = "once"
    /\ UNCHANGED << f_symbol, f_exchange, f_twice >>
    /\ UNCHANGED << retry_vars, news_vars, merge_vars, transform_vars,
                    main_vars, integrate_vars >>

\* the result is formatted again
FormatAgain ==
    /\ f_pc = "once"
    /\ f_twice' = format_stock_symbol(f_once, f_exchange)
    /\ f_pc' = "twice"
    /\ UNCHANGED << f_symbol, f_exchange, f_once >>
    /\ UNCHANGED << retry_vars, news_vars, merge_vars, transform_vars,
                    main_vars, integrate_vars >>

FormatNext == FormatCall \/ FormatAgain

SpecFormat == FormatInit /\ [][FormatNext]_vars

Trimmed == Strip(UpperStr(f_symbol))
ExchangeName == Strip(UpperStr(f_exchange))

\* C16: the result is the trimmed upper-cased symbol or that symbol with
\* ".IS" appended: unchanged when it contains ".", with ".IS" for a BIST
\* exchange name, bare for a US exchange name; and formatting the result
\* again with the same exchange gives it back unchanged.
C16_FormatIdempotent ==
    /\ (f_pc \in {"once", "twice"}) =>
          /\ f_once \in {Trimmed, Trimmed \o DotIS}
          /\ HasDot(Trimmed) => f_once = Trimmed
          /\ (~HasDot(Trimmed) /\ ExchangeName \in BistNames)
                => f_once = Trimmed \o DotIS
          /\ (~HasDot(Trimmed) /\ ExchangeName \in UsNames)
                => f_once = Trimmed
    /\ (f_pc = "twice") => f_twice = f_once

\* a padded lower-case symbol got ".IS" for a BIST exchange and was
\* formatted again
C16_Witness ==
    /\ f_pc = "twice"
    /\ f_symbol # Trimmed /\ Head(f_symbol) = " "
    /\ ExchangeName \in BistNames /\ f_exchange # ExchangeName
    /\ f_once = Trimmed \o DotIS /\ Trimmed # << >>

\* ------------------------------------------------------------------------
\* integrate_data (data_preprocessing.py)
\* ------------------------------------------------------------------------
\* A text is the sequence of the pieces joined with ' | '; the empty string
\* is the empty sequence.  The texts of a news row are single pieces.
TextCols == << "title", "description", "content", "url" >>

\* every news row, whatever its date
NewsOn_AnyDate(news, day) == news

\* the rows of a date's group, in input order
NewsOn(news, day) == SelectSeq(news, LAMBDA r : r.date = day)

\* ' | '.join(x) over a group
JoinPieces(items, col) == [i \in 1..Len(items) |-> items[i][col]]

\* stock_df['date'] = pd.to_datetime(stock_df['Date']).dt.date
WithDate(stock) ==
    [k \in 1..Len(stock) |->
        [Symbol |-> stock[k].Symbol, Date |-> stock[k].Date,
         date |-> stock[k].Date]]

\* the left merge on date with news_grouped, then fillna(''): a date without
\* a group has no pieces
IntegratedRow(row, news) ==
    LET items == NewsOn(news, row.date)
    IN  [Symbol |-> row.Symbol, Date |-> row.Date, date |-> row.date,
         title |-> JoinPieces(items, "title"),
         description |-> JoinPieces(items, "description"),
         content |-> JoinPieces(items, "content"),
         url |-> JoinPieces(items, "url")]

integrate_data(stock, news) ==
    IF stock = << >> \/ news = << >> THEN stock
    ELSE [k \in 1..Len(stock) |-> IntegratedRow(WithDate(stock)[k], news)]

\* the date column is added to the caller's frame, not to a copy
StockAfterIntegrate(stock, news) ==
    IF stock = << >> \/ news = << >> THEN stock ELSE WithDate(stock)

\* the i-th news row of a frame: its texts are its own, urls may repeat
NewsItem(day, u, i) ==
    [date |-> day, title |-> << "t", i >>, description |-> << "d", i >>,
     content |-> << "c", i >>, url |-> u]

IntegrateInit ==
    /\ RetryOff /\ NewsOff /\ MergeOff /\ TransformOff /\ MainOff /\ FormatOff
    /\ i_pc = "input"
    /\ \E n \in 0..MaxStock : \E f \in [1..n -> Symbols \X Dates] :
          /\ Chronological(f)
          /\ i_stock = [k \in 1..n |-> [Symbol |-> f[k][1], Date |-> f[k][2]]]
    /\ \E n \in 0..MaxNews : \E f \in [1..n -> Dates \X URLs] :
          i_news = [k \in 1..n |-> NewsItem(f[k][1], f[k][2], k)]
    /\ i_result = << >>
    /\ i_stock_after = i_stock

IntegrateCall ==
    /\ i_pc = "input"
    /\ i_result' = integrate_data(i_stock, i_news)
    /\ i_stock_after' = StockAfterIntegrate(i_stock, i_news)
    /\ i_pc' = "done"
    /\ UNCHANGED << i_stock, i_news >>
    /\ UNCHANGED << retry_vars, news_vars, merge_vars, transform_vars,
                    main_vars, format_vars >>

IntegrateNext == IntegrateCall

SpecIntegrate == IntegrateInit /\ [][IntegrateNext]_vars

\* the indices of the news rows of a day, in input order
NewsIdxOn(day) == { j \in 1..Len(i_news) : i_news[j].date = day }

\* text is the join, in input order, of column col of the news rows in J
IsJoinOf(text, J, col) ==
    /\ Len(text) = Cardinality(J)
    /\ \A p \in 1..Len(text) :
          \E j \in J :
             /\ Cardinality({ x \in J : x < j }) = p - 1
             /\ text[p] = i_news[j][col]

\* C17: the result has one row for each row of stock_df, in the same
\* order; each row carries the titles, descriptions, contents and urls of
\* the news of its date joined in input order, the empty string when its
\* date has no news; with an empty input stock_df itself is returned.
C17_OneRowPerStockRow ==
    (i_pc = "done") =>
        /\ Len(i_result) = Len(i_stock)
        /\ (i_stock = << >> \/ i_news = << >>) => i_result = i_stock
        /\ (i_stock # << >> /\ i_news # << >>) =>
              \A k \in 1..Len(i_result) :
                 /\ i_result[k].Symbol = i_stock[k].Symbol
                 /\ i_result[k].Date = i_stock[k].Date
                 /\ \A c \in { TextCols[x] : x \in 1..Len(TextCols) } :
                       /\ IsJoinOf(i_result[k][c], NewsIdxOn(i_stock[k].Date), c)
                       /\ NewsIdxOn(i_stock[k].Date) = {} => i_result[k][c] = << >>

\* one row with two joined news items and another row without news
C17_Witness ==
    /\ i_pc = "done" /\ i_stock # << >> /\ i_news # << >>
    /\ \E j, k \in 1..Len(i_result) :
          /\ Len(i_result[j].title) = 2
          /\ i_result[k].title = << >>
          /\ i_result[k].url = << >>

====
